---- MODULE Spec2Model ----
(***************************************************************************)
(* Weather data pipeline: threshold evaluation, alert dispatch with        *)
(* cooldown, and the fetch -> store -> evaluate -> dispatch cycle.         *)
(*                                                                         *)
(* Python values are records [tag, v]: tag "num" carries the number v,     *)
(* tag "none" is None, and tag "absent" marks a dictionary key that is     *)
(* not there.  Numbers are integers: the code only compares them and       *)
(* tests them for zero.  Time is counted in hours.                         *)
(***************************************************************************)
EXTENDS Integers, Sequences, FiniteSets, TLC

VARIABLES
    config,         \* Config(): thresholds and cooldown, read from the environment
    now,            \* wall clock (UTC hours); NOW() and datetime.utcnow()
    pc,             \* position of main / run_pipeline / check_and_send_alerts
    cycle,          \* number of run_pipeline executions started
    outcome,        \* how the last run_pipeline ended
    connection,     \* Database.connection of the running cycle: none / open / closed
    weather_data,   \* the reading of the running cycle
    alerts,         \* check_and_send_alerts: the list of triggered conditions
    idx,            \* check_and_send_alerts: position of the for loop in alerts
    email_sent,     \* _process_alert: the flag about to be logged
    alert_log,      \* table alert_log, in insertion order
    calls,          \* collaborator calls made by the running cycle, in order:
                    \*   [op, type, at (time), ok (it succeeded), arg], where arg is
                    \*   the rows-found flag of get_recent_alerts, the result of
                    \*   _send_email_alert, the email_sent passed to insert_alert_log
    last_notified,  \* per kind, the time _send_email_alert was last invoked
    faults,         \* number of collaborator failures so far
    scheduler       \* WeatherScheduler.scheduler: whether it is running, and the
                    \*   number of instances of the job its executor is running

vars == <<config, now, pc, cycle, outcome, connection, weather_data, alerts,
          idx, email_sent, alert_log, calls, last_notified, faults, scheduler>>

----------------------------------------------------------------------------
(* Bounds *)

MaxVal == 2        \* readings and thresholds of the evaluation range over -1..MaxVal
MaxTime == 3       \* the clock stops at MaxTime
MaxCycles == 2     \* run_pipeline is executed at most MaxCycles times
MaxCooldown == 2   \* ALERT_COOLDOWN_HOURS of the pipeline runs
MaxFaults == 1     \* at most MaxFaults collaborator calls fail in one behaviour

Vals == (0 - 1)..MaxVal

----------------------------------------------------------------------------
(* Python values and dictionaries *)

None_ == [tag |-> "none", v |-> 0]
Absent == [tag |-> "absent", v |-> 0]
Num(n) == [tag |-> "num", v |-> n]

IsNum(x) == x.tag = "num"

\* dict.get(key, default): the default only replaces a key that is not there
DictGet(field, default) == IF field.tag = "absent" THEN default ELSE field

\* mutant: `if x` written as `if x is not None`
TruthyNotNone(x) == x.tag # "none"

\* truth value of a number or None, as `if x` takes it
Truthy(x) == IsNum(x) /\ x.v # 0

Kinds == {"HEAVY_RAIN", "STRONG_WIND", "EXTREME_COLD", "EXTREME_HEAT"}

Types(as) == {as[i].type : i \in 1..Len(as)}

----------------------------------------------------------------------------
(* AlertEngine.check_and_send_alerts: the three threshold checks *)

\* mutant: the comparison made strict
CheckHeavyRainStrict(wd, cfg) ==
    LET precipitation == DictGet(wd.precipitation, Num(0))
    IN  IF Truthy(precipitation) /\ precipitation.v > cfg.HEAVY_RAIN_THRESHOLD
        THEN <<[type |-> "HEAVY_RAIN", severity |-> "HIGH",
                message |-> <<precipitation.v, cfg.HEAVY_RAIN_THRESHOLD>>]>>
        ELSE <<>>

CheckHeavyRain(wd, cfg) ==
    LET precipitation == DictGet(wd.precipitation, Num(0))
    IN  IF Truthy(precipitation) /\ precipitation.v >= cfg.HEAVY_RAIN_THRESHOLD
        THEN <<[type |-> "HEAVY_RAIN", severity |-> "HIGH",
                message |-> <<precipitation.v, cfg.HEAVY_RAIN_THRESHOLD>>]>>
        ELSE <<>>

\* mutant: the comparison made strict
CheckStrongWindStrict(wd, cfg) ==
    LET wind_speed == DictGet(wd.wind_speed, Num(0))
    IN  IF Truthy(wind_speed) /\ wind_speed.v > cfg.STRONG_WIND_THRESHOLD
        THEN <<[type |-> "STRONG_WIND", severity |-> "HIGH",
                message |-> <<wind_speed.v, cfg.STRONG_WIND_THRESHOLD>>]>>
        ELSE <<>>

CheckStrongWind(wd, cfg) ==
    LET wind_speed == DictGet(wd.wind_speed, Num(0))
    IN  IF Truthy(wind_speed) /\ wind_speed.v >= cfg.STRONG_WIND_THRESHOLD
        THEN <<[type |-> "STRONG_WIND", severity |-> "HIGH",
                message |-> <<wind_speed.v, cfg.STRONG_WIND_THRESHOLD>>]>>
        ELSE <<>>

\* mutant: `elif` written as a second `if`
CheckTemperatureBoth(wd, cfg) ==
    LET temperature == DictGet(wd.temperature, None_)
        cold == IF temperature.tag # "none" /\ temperature.v <= cfg.EXTREME_TEMP_LOW
                THEN <<[type |-> "EXTREME_COLD", severity |-> "MEDIUM",
                        message |-> <<temperature.v, cfg.EXTREME_TEMP_LOW>>]>>
                ELSE <<>>
        heat == IF temperature.tag # "none" /\ temperature.v >= cfg.EXTREME_TEMP_HIGH
                THEN <<[type |-> "EXTREME_HEAT", severity |-> "HIGH",
                        message |-> <<temperature.v, cfg.EXTREME_TEMP_HIGH>>]>>
                ELSE <<>>
    IN  cold \o heat

CheckTemperature(wd, cfg) ==
    LET temperature == DictGet(wd.temperature, None_)
    IN  IF temperature.tag # "none"
        THEN IF temperature.v <= cfg.EXTREME_TEMP_LOW
             THEN <<[type |-> "EXTREME_COLD", severity |-> "MEDIUM",
                     message |-> <<temperature.v, cfg.EXTREME_TEMP_LOW>>]>>
             ELSE IF temperature.v >= cfg.EXTREME_TEMP_HIGH
             THEN <<[type |-> "EXTREME_HEAT", severity |-> "HIGH",
                     message |-> <<temperature.v, cfg.EXTREME_TEMP_HIGH>>]>>
             ELSE <<>>
        ELSE <<>>

Evaluate(wd, cfg) ==
    CheckHeavyRain(wd, cfg) \o CheckStrongWind(wd, cfg) \o CheckTemperature(wd, cfg)

----------------------------------------------------------------------------
(* WeatherAPIClient.get_current_weather: the reading built from the      *)
(* "current" object of the API response                                   *)

\* current.get(key): a missing key reads as None
GetOrNone(field) == DictGet(field, None_)

ApiReading(current) ==
    [temperature   |-> GetOrNone(current.temperature_2m),
     precipitation |-> DictGet(current.precipitation, Num(0)),
     wind_speed    |-> GetOrNone(current.wind_speed_10m)]

----------------------------------------------------------------------------
(* Database *)

\* what one Database method can meet, given Database.connection:
\*   connect_error    _get_connection has to connect and psycopg2.connect raises
\*   ok               the statement (and commit) succeed
\*   execute_error    the statement fails, the connection stays usable
\*   connection_lost  the statement fails and the connection is left closed
DbOutcomes(conn) ==
    {"ok", "execute_error", "connection_lost"}
        \cup (IF conn = "open" THEN {} ELSE {"connect_error"})

\* Database.connection after the method
ConnectionAfter(conn, o) ==
    CASE o = "connect_error"   -> conn
      [] o = "connection_lost" -> "closed"
      [] OTHER                 -> "open"

\* insert_weather_data / insert_alert_log: True, False, or an exception that
\* escapes the except block (conn unbound after a failed connect; rollback on
\* a closed connection)
InsertReturn(o) ==
    CASE o = "ok"            -> "True"
      [] o = "execute_error" -> "False"
      [] OTHER               -> "raise"

Reverse(s) == [i \in 1..Len(s) |-> s[Len(s) + 1 - i]]

\* mutant: the window closed at its lower end
SelectRecentClosed(log, alert_type, hours, t) ==
    LET InWindow(e) == e.alert_type = alert_type /\ e.timestamp >= t - hours
    IN  Reverse(SelectSeq(log, InWindow))

\* mutant: the comparison turned around, selecting the rows before the window
SelectRecentBefore(log, alert_type, hours, t) ==
    LET InWindow(e) == e.alert_type = alert_type /\ e.timestamp < t - hours
    IN  Reverse(SelectSeq(log, InWindow))

\* the SELECT of get_recent_alerts, evaluated at time t
SelectRecent(log, alert_type, hours, t) ==
    LET InWindow(e) == e.alert_type = alert_type /\ e.timestamp > t - hours
    IN  Reverse(SelectSeq(log, InWindow))

\* variant: a get_recent_alerts that answers a failure with every row of the
\* kind, so that a failed query reads as an active cooldown
RecentAlertsFailClosed(log, alert_type, hours, t, o) ==
    IF o = "ok"
    THEN SelectRecent(log, alert_type, hours, t)
    ELSE Reverse(SelectSeq(log, LAMBDA e : e.alert_type = alert_type))

\* get_recent_alerts: the rows, or [] on any exception
RecentAlerts(log, alert_type, hours, t, o) ==
    IF o = "ok" THEN SelectRecent(log, alert_type, hours, t) ELSE <<>>

\* mutant: the test inverted
InCooldownInverted(recent_alerts) == Len(recent_alerts) = 0

\* `if recent_alerts:` in _process_alert
InCooldown(recent_alerts) == Len(recent_alerts) > 0

----------------------------------------------------------------------------
(* Inputs *)

\* Config.__init__: every setting is whatever the environment holds
MkConfig(rain, wind, low, high, hours) ==
    [HEAVY_RAIN_THRESHOLD |-> rain, STRONG_WIND_THRESHOLD |-> wind,
     EXTREME_TEMP_LOW |-> low, EXTREME_TEMP_HIGH |-> high,
     ALERT_COOLDOWN_HOURS |-> hours]

\* environments of the pipeline runs: thresholds in the order of the
\* defaults (rain, wind, low < high)
PipelineConfigs == {MkConfig(1, 1, 0, 2, MaxCooldown)}

\* "current" objects of the API response
Current(t, p, w) == [temperature_2m |-> t, precipitation |-> p, wind_speed_10m |-> w]

ApiResponses ==
    {Current(None_, Absent, None_),      \* nothing measured
     Current(Num(1), Num(1), Num(0)),    \* rain at the threshold
     Current(Num(0), Num(1), Num(1)),    \* rain, wind and cold
     Current(Num(2), Num(0), None_)}     \* heat

\* environments and readings of a direct call of check_and_send_alerts
EvalConfigs == {MkConfig(r, w, l, h, 1) : r \in Vals, w \in Vals, l \in Vals, h \in Vals}

EvalValues == {Absent, None_} \cup {Num(n) : n \in Vals}

EvalReadings ==
    [temperature : EvalValues, precipitation : EvalValues, wind_speed : EvalValues]

NoReading == [temperature |-> Absent, precipitation |-> Absent, wind_speed |-> Absent]

\* WeatherScheduler before start(): a BackgroundScheduler that is not running
NotStarted == [running |-> FALSE, instances |-> 0]

\* add_job is called without max_instances: the scheduler's default, one
\* running instance of the job at a time
max_instances == 1

----------------------------------------------------------------------------
(* State machine *)

Init ==
    /\ config \in PipelineConfigs
    /\ now = 0
    /\ pc = "main"
    /\ cycle = 0
    /\ outcome = "none"
    /\ connection = "none"
    /\ weather_data = NoReading
    /\ alerts = <<>>
    /\ idx = 1
    /\ email_sent = FALSE
    /\ alert_log = <<>>
    /\ calls = <<>>
    /\ last_notified = [k \in Kinds |-> <<>>]
    /\ faults = 0
    /\ scheduler = NotStarted

\* the outcomes the fault budget still allows, and the budget after one
Allowed(outcomes, good) == IF faults < MaxFaults THEN outcomes ELSE outcomes \cap {good}

Charge(failed) == faults' = IF failed THEN faults + 1 ELSE faults

\* run_pipeline is entered: fresh Config, client, Database and AlertEngine
EnterPipeline ==
    /\ cycle' = cycle + 1
    /\ pc' = "fetch"
    /\ outcome' = "running"
    /\ connection' = "none"
    /\ weather_data' = NoReading
    /\ alerts' = <<>>
    /\ idx' = 1
    /\ email_sent' = FALSE
    /\ calls' = <<>>
    /\ UNCHANGED <<config, now, alert_log, last_notified, faults>>

\* variant: run_pipeline without its try/except, so that an exception of a
\* collaborator leaves run_pipeline and ends the caller
ReturnPropagating(how) ==
    /\ pc' = IF how = "exception" THEN "exit" ELSE "return"
    /\ outcome' = how

\* variant: run_pipeline without the "return False" after a failed fetch
ReturnFallsThrough(how) ==
    /\ pc' = IF how = "fetch_failed" THEN "store" ELSE "return"
    /\ outcome' = how

\* run_pipeline reaches a return statement (True, False, or False from its
\* except block)
Return(how) ==
    /\ pc' = "return"
    /\ outcome' = how

\* variant: a main that starts the scheduler before it makes the initial run
TestConnectionSchedulerFirst ==
    /\ pc = "main"
    /\ EnterPipeline
    /\ scheduler' = [running |-> TRUE, instances |-> 0]

\* main: db.test_connection() on main's own Database, then the initial run
TestConnection ==
    /\ pc = "main"
    /\ \E o \in Allowed(DbOutcomes("none"), "ok") :
          IF o = "ok"
          THEN EnterPipeline /\ UNCHANGED scheduler
          ELSE /\ pc' = "exit"
               /\ faults' = faults + 1
               /\ UNCHANGED <<config, scheduler, now, cycle, outcome, connection,
                              weather_data, alerts, idx, email_sent, alert_log,
                              calls, last_notified>>

\* run_pipeline returns: its value is dropped by the caller and its locals
\* (Database, reading, alerts) go out of scope. The initial run returns to
\* main, which then starts the scheduler; a scheduled run returns to the
\* scheduler's executor, which counts the instance out
ReturnPipeline ==
    /\ pc = "return"
    /\ pc' = "done"
    /\ outcome' = "none"
    /\ connection' = "none"
    /\ weather_data' = NoReading
    /\ alerts' = <<>>
    /\ idx' = 1
    /\ email_sent' = FALSE
    /\ calls' = <<>>
    /\ scheduler' = IF scheduler.running
                    THEN [scheduler EXCEPT !.instances = @ - 1]
                    ELSE [running |-> TRUE, instances |-> 0]
    /\ UNCHANGED <<config, now, cycle, alert_log, last_notified, faults>>

\* the interval trigger is due: the running scheduler submits the job to its
\* executor unless max_instances instances of it are running (the run is
\* then skipped)
SchedulerFire ==
    /\ scheduler.running
    /\ scheduler.instances < max_instances
    /\ cycle < MaxCycles
    /\ EnterPipeline
    /\ scheduler' = [scheduler EXCEPT !.instances = @ + 1]

\* time passes: between runs, and inside _process_alert between the cooldown
\* decision and the log insert (SMTP is the slow call of a run)
Tick ==
    /\ pc \in {"done", "log"}
    /\ now < MaxTime
    /\ now' = now + 1
    /\ UNCHANGED <<config, scheduler, pc, cycle, outcome, connection, weather_data,
                   alerts, idx, email_sent, alert_log, calls, last_notified, faults>>

\* run_pipeline step 1: api_client.get_current_weather
GetCurrentWeather ==
    /\ pc = "fetch"
    /\ \/ /\ faults < MaxFaults
          /\ Return("fetch_failed")
          /\ Charge(TRUE)
          /\ UNCHANGED weather_data
       \/ /\ \E current \in ApiResponses : weather_data' = ApiReading(current)
          /\ pc' = "store"
          /\ UNCHANGED <<outcome, faults>>
    /\ UNCHANGED <<config, scheduler, now, cycle, connection, alerts, idx, email_sent,
                   alert_log, calls, last_notified>>

\* variant: a run_pipeline that does not test what insert_weather_data
\* returned
InsertWeatherDataUnchecked ==
    /\ pc = "store"
    /\ \E o \in Allowed(DbOutcomes(connection), "ok") :
          /\ Charge(o # "ok")
          /\ connection' = ConnectionAfter(connection, o)
          /\ IF InsertReturn(o) = "raise"
             THEN Return("exception")
             ELSE pc' = "check" /\ UNCHANGED outcome
    /\ UNCHANGED <<config, scheduler, now, cycle, weather_data, alerts, idx, email_sent,
                   alert_log, calls, last_notified>>

\* run_pipeline step 2: database.insert_weather_data
InsertWeatherData ==
    /\ pc = "store"
    /\ \E o \in Allowed(DbOutcomes(connection), "ok") :
          /\ Charge(o # "ok")
          /\ connection' = ConnectionAfter(connection, o)
          /\ CASE InsertReturn(o) = "True"  -> pc' = "check" /\ UNCHANGED outcome
               [] InsertReturn(o) = "False" -> Return("store_failed")
               [] OTHER                     -> Return("exception")
    /\ UNCHANGED <<config, scheduler, now, cycle, weather_data, alerts, idx, email_sent,
                   alert_log, calls, last_notified>>

\* the for loop of check_and_send_alerts moves on; after the last alert
\* check_and_send_alerts returns and run_pipeline returns True
NextAlert(i, as) ==
    IF i > Len(as)
    THEN Return("completed")
    ELSE pc' = "query" /\ UNCHANGED outcome

\* variant: an evaluation that consults the dispatch history and leaves out
\* the kinds already notified
CheckAlertsStateful ==
    /\ pc = "check"
    /\ alerts' = SelectSeq(Evaluate(weather_data, config),
                           LAMBDA a : last_notified[a.type] = <<>>)
    /\ idx' = 1
    /\ NextAlert(1, alerts')
    /\ UNCHANGED <<config, scheduler, now, cycle, connection, weather_data, email_sent,
                   alert_log, calls, last_notified, faults>>

\* run_pipeline step 3: check_and_send_alerts builds the list of alerts
CheckAlerts ==
    /\ pc = "check"
    /\ alerts' = Evaluate(weather_data, config)
    /\ idx' = 1
    /\ NextAlert(1, alerts')
    /\ UNCHANGED <<config, scheduler, now, cycle, connection, weather_data, email_sent,
                   alert_log, calls, last_notified, faults>>

\* _process_alert: the cooldown query and the branch on its result
GetRecentAlerts ==
    /\ pc = "query"
    /\ \E o \in Allowed(DbOutcomes(connection), "ok") :
          LET alert_type == alerts[idx].type
              recent_alerts == RecentAlerts(alert_log, alert_type,
                                            config.ALERT_COOLDOWN_HOURS, now, o)
          IN  /\ Charge(o # "ok")
              /\ connection' = ConnectionAfter(connection, o)
              /\ calls' = Append(calls, [op |-> "get_recent_alerts", type |-> alert_type,
                                          at |-> now, ok |-> (o = "ok"),
                                          arg |-> (recent_alerts # <<>>)])
              /\ IF InCooldown(recent_alerts)
                 THEN pc' = "log" /\ email_sent' = FALSE
                 ELSE pc' = "send" /\ UNCHANGED email_sent
    /\ UNCHANGED <<config, scheduler, now, cycle, outcome, weather_data, alerts, idx,
                   alert_log, last_notified>>

\* _process_alert: _send_email_alert returns True, or False on any exception
SendEmailAlert ==
    /\ pc = "send"
    /\ \E sent \in Allowed(BOOLEAN, TRUE) :
          /\ Charge(~sent)
          /\ email_sent' = sent
          /\ calls' = Append(calls, [op |-> "send_email_alert", type |-> alerts[idx].type,
                                      at |-> now, ok |-> sent, arg |-> sent])
    /\ last_notified' = [last_notified EXCEPT ![alerts[idx].type] = <<now>>]
    /\ pc' = "log"
    /\ UNCHANGED <<config, scheduler, now, cycle, outcome, connection, weather_data,
                   alerts, idx, alert_log>>

\* the row insert_alert_log writes
LogEntry(alert, sent, t) ==
    [timestamp |-> t, alert_type |-> alert.type, severity |-> alert.severity,
     message |-> alert.message, email_sent |-> sent]

\* variant: an insert_alert_log that keeps one row per kind, replacing the
\* rows the kind already has
InsertAlertLogUpsert ==
    /\ pc = "log"
    /\ \E o \in Allowed(DbOutcomes(connection), "ok") :
          /\ Charge(o # "ok")
          /\ connection' = ConnectionAfter(connection, o)
          /\ calls' = Append(calls, [op |-> "insert_alert_log", type |-> alerts[idx].type,
                                      at |-> now, ok |-> (o = "ok"), arg |-> email_sent])
          /\ alert_log' =
                IF o = "ok"
                THEN Append(SelectSeq(alert_log,
                                      LAMBDA e : e.alert_type # alerts[idx].type),
                            LogEntry(alerts[idx], email_sent, now))
                ELSE alert_log
          /\ IF InsertReturn(o) = "raise"
             THEN Return("exception") /\ UNCHANGED idx
             ELSE idx' = idx + 1 /\ NextAlert(idx + 1, alerts)
    /\ UNCHANGED <<config, scheduler, now, cycle, weather_data, alerts, email_sent,
                   last_notified>>

\* _process_alert: database.insert_alert_log, then the next alert of the loop
InsertAlertLog ==
    /\ pc = "log"
    /\ \E o \in Allowed(DbOutcomes(connection), "ok") :
          /\ Charge(o # "ok")
          /\ connection' = ConnectionAfter(connection, o)
          /\ calls' = Append(calls, [op |-> "insert_alert_log", type |-> alerts[idx].type,
                                      at |-> now, ok |-> (o = "ok"), arg |-> email_sent])
          /\ alert_log' = IF o = "ok"
                          THEN Append(alert_log, LogEntry(alerts[idx], email_sent, now))
                          ELSE alert_log
          /\ IF InsertReturn(o) = "raise"
             THEN Return("exception") /\ UNCHANGED idx
             ELSE idx' = idx + 1 /\ NextAlert(idx + 1, alerts)
    /\ UNCHANGED <<config, scheduler, now, cycle, weather_data, alerts, email_sent,
                   last_notified>>

Next ==
    \/ TestConnection
    \/ ReturnPipeline
    \/ SchedulerFire
    \/ Tick
    \/ GetCurrentWeather
    \/ InsertWeatherData
    \/ CheckAlerts
    \/ GetRecentAlerts
    \/ SendEmailAlert
    \/ InsertAlertLog

Spec == Init /\ [][Next]_vars

\* a direct call of check_and_send_alerts (as test_alert.py makes), over all
\* readings and thresholds of the value range, up to the list of alerts
InitEval ==
    /\ config \in EvalConfigs
    /\ weather_data \in EvalReadings
    /\ now = 0
    /\ pc = "check"
    /\ cycle = 1
    /\ outcome = "running"
    /\ connection = "none"
    /\ alerts = <<>>
    /\ idx = 1
    /\ email_sent = FALSE
    /\ alert_log = <<>>
    /\ calls = <<>>
    /\ last_notified = [k \in Kinds |-> <<>>]
    /\ faults = 0
    /\ scheduler = NotStarted

NextEval == CheckAlerts

SpecEval == InitEval /\ [][NextEval]_vars

\* environments in which the low temperature threshold is not below the
\* high one (equal, and above)
StartupConfigs == {MkConfig(1, 1, 1, 1, MaxCooldown), MkConfig(1, 1, 2, 0, MaxCooldown)}

\* main started in such an environment: Config() takes the values as they
\* are, and main goes on to test_connection without calling validate()
InitStartup ==
    /\ config \in StartupConfigs
    /\ now = 0
    /\ pc = "main"
    /\ cycle = 0
    /\ outcome = "none"
    /\ connection = "none"
    /\ weather_data = NoReading
    /\ alerts = <<>>
    /\ idx = 1
    /\ email_sent = FALSE
    /\ alert_log = <<>>
    /\ calls = <<>>
    /\ last_notified = [k \in Kinds |-> <<>>]
    /\ faults = 0
    /\ scheduler = NotStarted

SpecStartup == InitStartup /\ [][Next]_vars

\* a longer run in which every collaborator succeeds: no failure is left to
\* happen, and the scheduler makes one run more
PersistCycles == MaxCycles + 1

InitPersist ==
    /\ config \in PipelineConfigs
    /\ now = 0
    /\ pc = "main"
    /\ cycle = 0
    /\ outcome = "none"
    /\ connection = "none"
    /\ weather_data = NoReading
    /\ alerts = <<>>
    /\ idx = 1
    /\ email_sent = FALSE
    /\ alert_log = <<>>
    /\ calls = <<>>
    /\ last_notified = [k \in Kinds |-> <<>>]
    /\ faults = MaxFaults
    /\ scheduler = NotStarted

SchedulerFirePersist ==
    /\ scheduler.running
    /\ scheduler.instances < max_instances
    /\ cycle < PersistCycles
    /\ EnterPipeline
    /\ scheduler' = [scheduler EXCEPT !.instances = @ + 1]

NextPersist ==
    \/ TestConnection
    \/ ReturnPipeline
    \/ SchedulerFirePersist
    \/ Tick
    \/ GetCurrentWeather
    \/ InsertWeatherData
    \/ CheckAlerts
    \/ GetRecentAlerts
    \/ SendEmailAlert
    \/ InsertAlertLog

SpecPersist == InitPersist /\ [][NextPersist]_vars

----------------------------------------------------------------------------
(* Threshold evaluation (SpecEval) *)

\* the list of alerts of the call has been built
Evaluated == pc # "check"

\* a field of the reading holds a number: the key is there and not None
Present(field) == field.tag = "num"

Triggered(kind) == kind \in Types(alerts)

\* C6 as stated: HEAVY_RAIN triggers exactly when precipitation is present
\* and >= HEAVY_RAIN_THRESHOLD, for every threshold (zero and negative too).
C6_HeavyRainIffPresentAndAtLeast ==
    Evaluated =>
        (Triggered("HEAVY_RAIN") <=>
            /\ Present(weather_data.precipitation)
            /\ weather_data.precipitation.v >= config.HEAVY_RAIN_THRESHOLD)

\* C6 amended: HEAVY_RAIN triggers exactly when precipitation is present,
\* not zero, and >= HEAVY_RAIN_THRESHOLD; a precipitation of 0 never triggers
\* it, whatever the threshold.
C6_HeavyRainIffNonZeroAndAtLeast ==
    Evaluated =>
        (Triggered("HEAVY_RAIN") <=>
            /\ Present(weather_data.precipitation)
            /\ weather_data.precipitation.v # 0
            /\ weather_data.precipitation.v >= config.HEAVY_RAIN_THRESHOLD)

\* a precipitation equal to a negative threshold has triggered HEAVY_RAIN
C6_Witness ==
    /\ Evaluated
    /\ Present(weather_data.precipitation)
    /\ weather_data.precipitation.v = config.HEAVY_RAIN_THRESHOLD
    /\ config.HEAVY_RAIN_THRESHOLD < 0
    /\ Triggered("HEAVY_RAIN")

\* C7 as stated: STRONG_WIND triggers exactly when wind speed is present and
\* >= STRONG_WIND_THRESHOLD, for every threshold (zero and negative too).
C7_StrongWindIffPresentAndAtLeast ==
    Evaluated =>
        (Triggered("STRONG_WIND") <=>
            /\ Present(weather_data.wind_speed)
            /\ weather_data.wind_speed.v >= config.STRONG_WIND_THRESHOLD)

\* C7 amended: STRONG_WIND triggers exactly when wind speed is present, not
\* zero, and >= STRONG_WIND_THRESHOLD (inclusive at the threshold); a wind
\* speed of 0 never triggers it, whatever the threshold.
C7_StrongWindIffNonZeroAndAtLeast ==
    Evaluated =>
        (Triggered("STRONG_WIND") <=>
            /\ Present(weather_data.wind_speed)
            /\ weather_data.wind_speed.v # 0
            /\ weather_data.wind_speed.v >= config.STRONG_WIND_THRESHOLD)

\* a wind speed equal to a positive threshold has triggered STRONG_WIND
C7_Witness ==
    /\ Evaluated
    /\ Present(weather_data.wind_speed)
    /\ weather_data.wind_speed.v = config.STRONG_WIND_THRESHOLD
    /\ config.STRONG_WIND_THRESHOLD > 0
    /\ Triggered("STRONG_WIND")

\* C8: one evaluation never triggers both EXTREME_COLD and EXTREME_HEAT, for
\* every threshold pair (low >= high too); EXTREME_COLD triggers exactly when
\* temperature is present and <= EXTREME_TEMP_LOW, EXTREME_HEAT exactly when
\* temperature is present, EXTREME_COLD did not trigger, and temperature >=
\* EXTREME_TEMP_HIGH.
C8_ColdHeatExclusive ==
    Evaluated =>
        /\ ~(Triggered("EXTREME_COLD") /\ Triggered("EXTREME_HEAT"))
        /\ Triggered("EXTREME_COLD") <=>
              /\ Present(weather_data.temperature)
              /\ weather_data.temperature.v <= config.EXTREME_TEMP_LOW
        /\ Triggered("EXTREME_HEAT") <=>
              /\ Present(weather_data.temperature)
              /\ ~Triggered("EXTREME_COLD")
              /\ weather_data.temperature.v >= config.EXTREME_TEMP_HIGH

\* low >= high and a temperature inside both ranges: only EXTREME_COLD
C8_Witness ==
    /\ Evaluated
    /\ config.EXTREME_TEMP_LOW >= config.EXTREME_TEMP_HIGH
    /\ Present(weather_data.temperature)
    /\ weather_data.temperature.v <= config.EXTREME_TEMP_LOW
    /\ weather_data.temperature.v >= config.EXTREME_TEMP_HIGH
    /\ Triggered("EXTREME_COLD")

\* a field of the reading is missing: the key is not there, or it is None
Missing(field) == field.tag \in {"absent", "none"}

\* C9: a missing field never triggers its kind, whatever the thresholds, and
\* with all three fields missing check_and_send_alerts returns with an empty
\* list, no notifier call and no alert-log insert.
C9_MissingNeverTriggers ==
    Evaluated =>
        /\ Missing(weather_data.precipitation) => ~Triggered("HEAVY_RAIN")
        /\ Missing(weather_data.wind_speed) => ~Triggered("STRONG_WIND")
        /\ Missing(weather_data.temperature) =>
              ~Triggered("EXTREME_COLD") /\ ~Triggered("EXTREME_HEAT")
        /\ ( /\ Missing(weather_data.precipitation)
             /\ Missing(weather_data.wind_speed)
             /\ Missing(weather_data.temperature) ) =>
              /\ alerts = <<>>
              /\ pc = "return"
              /\ calls = <<>>
              /\ alert_log = <<>>

\* nothing measured, every threshold negative, and the call has returned
C9_Witness ==
    /\ Evaluated
    /\ weather_data.precipitation = Absent
    /\ weather_data.wind_speed = None_
    /\ weather_data.temperature = None_
    /\ config.HEAVY_RAIN_THRESHOLD < 0
    /\ config.STRONG_WIND_THRESHOLD < 0
    /\ config.EXTREME_TEMP_LOW < 0
    /\ pc = "return"

----------------------------------------------------------------------------
(* Alert dispatch (Spec) *)

Last(s) == s[Len(s)]

CallsOf(op, kind) == {i \in 1..Len(calls) : calls[i].op = op /\ calls[i].type = kind}

\* the rows of the alert log of one kind
EntriesOf(kind) == {i \in 1..Len(alert_log) : alert_log[i].alert_type = kind}

Hours == config.ALERT_COOLDOWN_HOURS

\* check_and_send_alerts has been left, by return or by an exception
Left == pc = "return" /\ outcome \in {"completed", "exception"}

\* the email_sent flag the dispatch of a kind owes the log: false after a
\* cooldown skip, the notifier's result otherwise
OwedFlag(kind) ==
    LET q == CHOOSE i \in CallsOf("get_recent_alerts", kind) : TRUE
    IN  IF calls[q].arg
        THEN FALSE
        ELSE \E i \in CallsOf("send_email_alert", kind) : calls[i].arg

\* C1 as stated: when check_and_send_alerts has run, whatever the cooldown
\* query, the notifier and the log insert did, every triggered condition has
\* exactly one insert_alert_log call, with email_sent false after a cooldown
\* skip or a failed notification and true after a successful one.
C1_OneLogInsertPerCondition ==
    Left =>
        \A a \in 1..Len(alerts) :
            /\ Cardinality(CallsOf("insert_alert_log", alerts[a].type)) = 1
            /\ \A i \in CallsOf("insert_alert_log", alerts[a].type) :
                  calls[i].arg = OwedFlag(alerts[a].type)

\* the dispatch of alerts[idx] has queried the cooldown and nothing since
Decided == calls # <<>> /\ Last(calls).op = "get_recent_alerts"

\* the notifier is about to be invoked (no time passes before the call)
Notifying == pc = "send"

\* the dispatch goes to the log insert without a notification
Skipping == Decided /\ pc = "log"

\* C2 as stated: the notifier is never invoked twice for one kind less than
\* ALERT_COOLDOWN_HOURS apart.
C2_NeverTwiceWithinCooldown ==
    Notifying =>
        LET k == alerts[idx].type
        IN  last_notified[k] # <<>> => now - last_notified[k][1] >= Hours

\* the alert log holds a row of the kind written at or after its last
\* notification
LoggedSinceNotified(k) ==
    /\ last_notified[k] # <<>>
    /\ \E i \in EntriesOf(k) : alert_log[i].timestamp >= last_notified[k][1]

\* C2 amended: once a dispatch of kind K has been notified and logged, a later
\* dispatch of K whose cooldown query succeeds invokes the notifier only
\* ALERT_COOLDOWN_HOURS or more after that notification; a dispatch that
\* finds K in cooldown goes to the log insert with email_sent false.
C2_NeverTwiceWithinCooldownOfLogged ==
    /\ (Notifying /\ Last(calls).ok /\ LoggedSinceNotified(alerts[idx].type)) =>
          now - last_notified[alerts[idx].type][1] >= Hours
    /\ Skipping => ~email_sent /\ Last(calls).arg

\* a kind notified and logged before is notified again after the cooldown
C2_Witness ==
    /\ Notifying
    /\ Last(calls).ok
    /\ LoggedSinceNotified(alerts[idx].type)
    /\ now - last_notified[alerts[idx].type][1] >= Hours

\* C3: in _process_alert a non-empty get_recent_alerts result leads to no
\* notifier call and insert_alert_log(email_sent=False); an empty one to
\* exactly one notifier call and insert_alert_log with the notifier's result.
C3_ProcessAlertBranches ==
    \A i \in 1..Len(calls) :
        calls[i].op = "get_recent_alerts" =>
            LET k == calls[i].type
                sends == CallsOf("send_email_alert", k)
            IN  IF calls[i].arg
                THEN /\ sends = {}
                     /\ i = Len(calls) => pc = "log" /\ ~email_sent
                     /\ i < Len(calls) =>
                           /\ calls[i + 1].op = "insert_alert_log"
                           /\ calls[i + 1].type = k
                           /\ ~calls[i + 1].arg
                ELSE /\ i = Len(calls) => pc = "send" /\ sends = {}
                     /\ i < Len(calls) =>
                           /\ sends = {i + 1}
                           /\ i + 1 = Len(calls) =>
                                 pc = "log" /\ email_sent = calls[i + 1].arg
                           /\ i + 1 < Len(calls) =>
                                 /\ calls[i + 2].op = "insert_alert_log"
                                 /\ calls[i + 2].type = k
                                 /\ calls[i + 2].arg = calls[i + 1].arg

\* one run has dispatched a kind in cooldown (logged false, no notifier call)
\* and a kind whose notification failed (logged false as well)
C3_Witness ==
    \E i, j \in 1..(Len(calls) - 1) :
        /\ calls[i].op = "get_recent_alerts" /\ calls[i].arg
        /\ calls[i + 1].op = "insert_alert_log"
        /\ calls[j].op = "send_email_alert" /\ ~calls[j].arg
        /\ calls[j + 1].op = "insert_alert_log" /\ ~calls[j + 1].arg

\* the rows of the kind being dispatched, and the time of its cooldown query
Prior == EntriesOf(alerts[idx].type)

QueryTime == Last(calls).at

\* C4 as stated: with a prior entry of kind K at T, a dispatch of K before
\* T + H does not invoke the notifier, and one after T + H (of every prior
\* entry of K) does.
C4_CooldownBoundary ==
    Decided =>
        /\ (\E i \in Prior : QueryTime < alert_log[i].timestamp + Hours) => ~Notifying
        /\ (Prior # {} /\ \A i \in Prior : QueryTime > alert_log[i].timestamp + Hours)
              => Notifying

\* C4 amended: a dispatch of K whose cooldown query succeeds invokes the
\* notifier exactly when every prior entry of K is H hours old or older (the
\* window is (now - H, now]); a dispatch whose cooldown query fails invokes it
\* whatever the log holds.
C4_CooldownBoundaryWhenQueried ==
    Decided =>
        IF Last(calls).ok
        THEN Notifying <=> \A i \in Prior : QueryTime >= alert_log[i].timestamp + Hours
        ELSE Notifying

\* a dispatch exactly H hours after the latest entry of its kind notifies
C4_Witness ==
    /\ Decided
    /\ Last(calls).ok
    /\ Notifying
    /\ \E i \in Prior : QueryTime = alert_log[i].timestamp + Hours

\* C5 as stated: a dispatch is suppressed as in cooldown only if a log entry
\* of its kind with email_sent true lies in the preceding cooldown window.
C5_SuppressedOnlyAfterNotification ==
    Skipping =>
        \E i \in Prior :
            /\ alert_log[i].email_sent
            /\ alert_log[i].timestamp > QueryTime - Hours

Rank(kind) ==
    CASE kind = "HEAVY_RAIN"  -> 1
      [] kind = "STRONG_WIND" -> 2
      [] OTHER                -> 3

SeverityOf(kind) == IF kind = "EXTREME_COLD" THEN "MEDIUM" ELSE "HIGH"

TypeSeq(as) == [i \in 1..Len(as) |-> as[i].type]

\* the calls of one kind, in the order _process_alert makes them
OpRank(op) ==
    CASE op = "get_recent_alerts" -> 1
      [] op = "send_email_alert"  -> 2
      [] OTHER                    -> 3

\* the reading and thresholds of test_alert.py
TestReading == [temperature |-> Num(30), precipitation |-> Num(15), wind_speed |-> Num(60)]

TestConfig == MkConfig(10, 50, 0, 35, 6)

\* C10 as stated: the triggered conditions are produced in the order
\* HEAVY_RAIN, STRONG_WIND, temperature with their severities, their calls do
\* not interleave, and all of them are dispatched.
C10_AllDispatchedInOrder ==
    /\ \A i, j \in 1..Len(alerts) : i < j => Rank(alerts[i].type) < Rank(alerts[j].type)
    /\ \A i \in 1..Len(alerts) : alerts[i].severity = SeverityOf(alerts[i].type)
    /\ \A i, j \in 1..Len(calls) :
          i < j => \/ Rank(calls[i].type) < Rank(calls[j].type)
                   \/ /\ calls[i].type = calls[j].type
                      /\ OpRank(calls[i].op) < OpRank(calls[j].op)
    /\ TypeSeq(Evaluate(TestReading, TestConfig)) = <<"HEAVY_RAIN", "STRONG_WIND">>
    /\ Left =>
          \A a \in 1..Len(alerts) :
              /\ CallsOf("get_recent_alerts", alerts[a].type) # {}
              /\ CallsOf("insert_alert_log", alerts[a].type) # {}

----------------------------------------------------------------------------
(* Failures inside a cycle (Spec) *)

\* the conditions of the list that come after the one of a given kind
LaterThan(kind) == {a \in 1..Len(alerts) : Rank(alerts[a].type) > Rank(kind)}

\* C11 as stated: however insert_alert_log fails (a failed connect included),
\* every condition later in the cycle's list is still cooldown-checked and
\* logged.
C11_FailedInsertDoesNotAbort ==
    Left =>
        \A i \in 1..Len(calls) :
            (calls[i].op = "insert_alert_log" /\ ~calls[i].ok) =>
                \A a \in LaterThan(calls[i].type) :
                    /\ CallsOf("get_recent_alerts", alerts[a].type) # {}
                    /\ CallsOf("insert_alert_log", alerts[a].type) # {}

\* C12 as stated: with EXTREME_TEMP_LOW >= EXTREME_TEMP_HIGH main never
\* executes run_pipeline: no cycle starts, so nothing is fetched, stored,
\* notified or logged.
C12_InvalidThresholdsFailFast ==
    (config.EXTREME_TEMP_LOW >= config.EXTREME_TEMP_HIGH) =>
        /\ cycle = 0
        /\ pc \in {"main", "exit"}
        /\ alert_log = <<>>

\* the ways run_pipeline ends without completing the cycle
FailedOutcomes == {"fetch_failed", "store_failed", "exception"}

\* C13: no failure inside a cycle ends the scheduling loop. The process ends
\* only when main's own connection test fails, before any cycle; a failed
\* cycle is a return of run_pipeline (False, from a return statement or from
\* its except block), never an exception leaving it; and once a run is over
\* the scheduler can start the next one (up to the bound on cycles).
C13_FailuresNeverStopTheLoop ==
    /\ pc = "exit" => cycle = 0
    /\ outcome \in FailedOutcomes => pc = "return"
    /\ pc = "return" => outcome \in FailedOutcomes \cup {"completed"}
    /\ (pc = "done" /\ cycle < MaxCycles) => ENABLED SchedulerFire

\* a second cycle has been started after a collaborator failed in the first
C13_Witness == cycle = 2 /\ pc = "fetch" /\ faults > 0

\* the step in which get_current_weather fails (returns None)
FetchFails == pc = "fetch" /\ faults' > faults

\* C14: a failed fetch ends the cycle before anything else: run_pipeline
\* returns at once without having used the database (no reading insert),
\* built a list of alerts (no evaluation) or made any cooldown query,
\* notifier call or log insert; the alert log is as it was, and the process
\* goes on to wait for the next run.
C14_SourceFailureAbortsCycle ==
    [][/\ FetchFails =>
            /\ pc' = "return" /\ outcome' = "fetch_failed"
            /\ connection' = "none"
            /\ alerts' = <<>> /\ calls' = <<>>
            /\ alert_log' = alert_log /\ last_notified' = last_notified
       /\ (pc = "return" /\ outcome = "fetch_failed") =>
            /\ pc' = "done"
            /\ alert_log' = alert_log /\ last_notified' = last_notified]_vars

\* a fetch has failed in a cycle that started with entries in the alert log
C14_Witness == pc = "return" /\ outcome = "fetch_failed" /\ alert_log # <<>>

----------------------------------------------------------------------------
(* Evaluation inside the pipeline (Spec) *)

\* whether a kind's condition holds of a reading under the thresholds
Holds(kind, wd, cfg) ==
    CASE kind = "HEAVY_RAIN" ->
            /\ Present(wd.precipitation)
            /\ wd.precipitation.v # 0
            /\ wd.precipitation.v >= cfg.HEAVY_RAIN_THRESHOLD
      [] kind = "STRONG_WIND" ->
            /\ Present(wd.wind_speed)
            /\ wd.wind_speed.v # 0
            /\ wd.wind_speed.v >= cfg.STRONG_WIND_THRESHOLD
      [] kind = "EXTREME_COLD" ->
            /\ Present(wd.temperature)
            /\ wd.temperature.v <= cfg.EXTREME_TEMP_LOW
      [] OTHER ->
            /\ Present(wd.temperature)
            /\ wd.temperature.v > cfg.EXTREME_TEMP_LOW
            /\ wd.temperature.v >= cfg.EXTREME_TEMP_HIGH

\* the one list of (kind, severity) that a reading has under the thresholds
ConditionsOf(wd, cfg) ==
    LET order == <<"HEAVY_RAIN", "STRONG_WIND", "EXTREME_COLD", "EXTREME_HEAT">>
        kinds == SelectSeq(order, LAMBDA k : Holds(k, wd, cfg))
    IN  [i \in 1..Len(kinds) |-> <<kinds[i], SeverityOf(kinds[i])>>]

KindSeverity(as) == [i \in 1..Len(as) |-> <<as[i].type, as[i].severity>>]

\* the dispatch of a cycle's list is under way
Dispatching == pc \in {"query", "send", "log"}

\* C15: evaluation is a function of the reading and the thresholds alone.
\* Whatever the alert log holds, whichever cycle it is and whatever the
\* notifier and the database did before, the list built for a reading is
\* the one list ConditionsOf gives for that reading and those thresholds,
\* so two evaluations of the same reading under the same configuration
\* agree in kinds, severities and order; and the list is not altered while
\* it is dispatched.
C15_EvaluationIsFunctionOfReading ==
    Dispatching => KindSeverity(alerts) = ConditionsOf(weather_data, config)

\* a reading is evaluated in a second cycle, after one of its kinds was
\* notified and logged in the first
C15_Witness ==
    /\ cycle = 2
    /\ Dispatching
    /\ \E a \in 1..Len(alerts) :
          /\ last_notified[alerts[a].type] # <<>>
          /\ EntriesOf(alerts[a].type) # {}

----------------------------------------------------------------------------
(* Scheduling (Spec) *)

\* positions of an execution of run_pipeline, from its fetch to its return
InPipeline == pc \in {"fetch", "store", "check", "query", "send", "log", "return"}

\* executions of run_pipeline under way: the instances the scheduler's
\* executor is running, and main's own initial call
InFlight ==
    scheduler.instances + (IF ~scheduler.running /\ InPipeline THEN 1 ELSE 0)

\* C16: cycles never overlap. At most one execution of run_pipeline is under
\* way at any time: the scheduler is not running while main makes the initial
\* call, and it never has a second instance of the job running; so the one
\* dispatch there is makes its cooldown query and its log insert with no
\* other dispatch in between.
C16_CyclesNeverOverlap ==
    /\ InFlight <= 1
    /\ InPipeline => InFlight = 1
    /\ (cycle = 1 /\ InPipeline) => ~scheduler.running
    /\ ~scheduler.running => scheduler.instances = 0

\* a scheduled run is between its cooldown query and its log insert, some
\* time after the initial run
C16_Witness ==
    /\ scheduler.running /\ scheduler.instances = 1
    /\ pc = "log"
    /\ now > 0

----------------------------------------------------------------------------
(* Failed cooldown query (Spec) *)

\* the failed cooldown queries among the calls of the running cycle
FailedQueries ==
    {i \in 1..Len(calls) : calls[i].op = "get_recent_alerts" /\ ~calls[i].ok}

\* C17: a failed cooldown query reads as an empty result. After a failed
\* get_recent_alerts for kind K no rows are seen, the next call of the cycle
\* is the notifier for K (whatever the alert log holds for K), and the call
\* after that is the log insert for K with email_sent equal to what the
\* notifier returned.
C17_FailedQueryNotifies ==
    \A i \in FailedQueries :
        /\ ~calls[i].arg
        /\ i = Len(calls) => Notifying
        /\ i < Len(calls) =>
              /\ calls[i + 1].op = "send_email_alert"
              /\ calls[i + 1].type = calls[i].type
        /\ i + 1 < Len(calls) =>
              /\ calls[i + 2].op = "insert_alert_log"
              /\ calls[i + 2].type = calls[i].type
              /\ calls[i + 2].arg = calls[i + 1].arg

\* a cooldown query failed while the log held an entry of the kind inside
\* the window, the notifier was invoked and the dispatch was logged
C17_Witness ==
    \E i \in FailedQueries :
        /\ i + 2 <= Len(calls)
        /\ calls[i + 2].ok
        /\ \E e \in EntriesOf(calls[i].type) :
              /\ e < Len(alert_log)
              /\ alert_log[e].timestamp > calls[i].at - Hours

----------------------------------------------------------------------------
(* The alert log (Spec) *)

\* number of rows the running cycle has inserted into the alert log
InsertedInCycle ==
    Cardinality({i \in 1..Len(calls) :
                    calls[i].op = "insert_alert_log" /\ calls[i].ok})

\* a step adds one row at the end of the alert log and leaves the others
AppendsEntry ==
    /\ Len(alert_log') = Len(alert_log) + 1
    /\ SubSeq(alert_log', 1, Len(alert_log)) = alert_log

\* C18: the alert log is append-only and holds only dispatched conditions.
\* Every step leaves the log as it is or adds one row at its end; a row is
\* added only by the log insert of the condition being dispatched, a
\* condition of the cycle's list that holds of the cycle's reading, and has
\* its kind, severity and message; and a cycle never inserts more rows than
\* it has conditions.
C18_AlertLogAppendOnly ==
    [][/\ \/ alert_log' = alert_log
          \/ /\ AppendsEntry
             /\ pc = "log"
             /\ Holds(alerts[idx].type, weather_data, config)
             /\ Last(alert_log').alert_type = alerts[idx].type
             /\ Last(alert_log').severity = alerts[idx].severity
             /\ Last(alert_log').message = alerts[idx].message
       /\ InsertedInCycle' <= Len(alerts')]_vars

\* a second cycle has logged each of its two or more conditions on top of
\* the rows of the first
C18_Witness ==
    /\ cycle = 2
    /\ Len(alerts) >= 2
    /\ InsertedInCycle = Len(alerts)
    /\ Len(alert_log) > InsertedInCycle

----------------------------------------------------------------------------
(* A persisting condition (SpecPersist) *)

\* the rows of one kind, oldest first
RowsOf(kind) == SelectSeq(alert_log, LAMBDA e : e.alert_type = kind)

\* a kind has been triggered and logged in every cycle so far, notified in
\* the first, with less than the cooldown between one log row and the next,
\* and the cycle that has just completed made its cooldown query for the
\* kind when the cooldown of the notified row was over
PersistedPastCooldown(kind) ==
    LET rows == RowsOf(kind)
    IN  /\ pc = "return" /\ outcome = "completed"
        /\ cycle >= 2
        /\ Len(rows) = cycle
        /\ rows[1].email_sent
        /\ \A j \in 1..(Len(rows) - 1) :
              rows[j + 1].timestamp - rows[j].timestamp < Hours
        /\ \E q \in CallsOf("get_recent_alerts", kind) :
              calls[q].at - rows[1].timestamp >= Hours

\* C19 as stated, on a finite run: when a condition persists cycle after
\* cycle, the cycles are less than ALERT_COOLDOWN_HOURS apart and no
\* collaborator fails, the condition has been notified again by the time it
\* is dispatched ALERT_COOLDOWN_HOURS after its notification.
C19_PersistingConditionRenotified ==
    \A kind \in Kinds :
        PersistedPastCooldown(kind) =>
            \E j \in 2..Len(RowsOf(kind)) : RowsOf(kind)[j].email_sent

----------------------------------------------------------------------------
(* Persisting the reading first (Spec) *)

\* the step in which insert_weather_data fails: returns False, or raises
StoreFails == pc = "store" /\ faults' > faults

\* run_pipeline has returned from a failed insert_weather_data
StoreFailed ==
    /\ pc = "return"
    /\ outcome = "store_failed" \/ (outcome = "exception" /\ calls = <<>>)

\* a step makes a cooldown query, a notifier call or a log insert
MakesCall ==
    \/ Len(calls') > Len(calls)
    \/ alert_log' # alert_log
    \/ last_notified' # last_notified

\* C20: evaluation and dispatch are gated on the reading insert. The list of
\* alerts is built only in the step after an insert_weather_data that did not
\* fail, and cooldown queries, notifier calls and log inserts are made only
\* from there on; a failed insert_weather_data (False or an exception) takes
\* run_pipeline straight to its return, with no list of alerts, no call and
\* the alert log and the notification times as they were.
C20_EvaluationGatedOnStore ==
    [][/\ (pc' = "check" /\ pc # "check") => (pc = "store" /\ faults' = faults)
       /\ (pc' \in {"query", "send", "log"}) => (pc \in {"check", "query", "send", "log"})
       /\ MakesCall => (pc \in {"query", "send", "log"})
       /\ alerts' # alerts => (pc = "check" \/ alerts' = <<>>)
       /\ StoreFails =>
             /\ pc' = "return"
             /\ outcome' \in {"store_failed", "exception"}
             /\ alerts' = <<>> /\ calls' = <<>>
             /\ alert_log' = alert_log /\ last_notified' = last_notified
       /\ StoreFailed =>
             /\ pc' = "done"
             /\ alert_log' = alert_log /\ last_notified' = last_notified]_vars

\* the insert of a reading that breaches a threshold has failed and
\* run_pipeline has returned
C20_Witness ==
    /\ StoreFailed
    /\ ConditionsOf(weather_data, config) # <<>>

====
